---- MODULE Spec2Model ----
(***************************************************************************)
(* A model of the AI-Persona RAG backend: the RAGService singleton         *)
(* (services/ragService.js), the /api/rag routes (routes/rag.js) and the   *)
(* application-level handlers of server.js, the chat sessions of           *)
(* routes/chat.js, the rate limiter, and the chat and upload components of *)
(* the frontend.                                                           *)
(*                                                                         *)
(* Text is a sequence of tokens.  " " is one blank, "a" is one letter and  *)
(* "B" stands for a block of BlockLen letters, so that a short sequence    *)
(* can be longer than the splitter's chunkSize of 1000 characters.         *)
(* The OpenAI and Supabase services are the environment: every call to     *)
(* them draws its outcome with \E from the outcomes the client libraries   *)
(* can deliver.                                                            *)
(***************************************************************************)
EXTENDS Integers, Sequences, FiniteSets, TLC

VARIABLES vectorStore, index, reqs, served,
          chatSessions, issued, chatResp, sessionLog,
          messages, inputMessage, isLoading, pending,
          content, isUploading, uploadStatus, statusMessage, uploads, statusOf, timers,
          store, handled, apiResp

\* the state of routes/chat.js
chatVars == <<chatSessions, issued, chatResp, sessionLog>>

\* the state of the rate limiter of server.js
limiterVars == <<store, handled, apiResp>>

\* the state of components/ChatInterface.jsx
chatUiVars == <<messages, inputMessage, isLoading, pending>>

\* the state of components/DocumentUpload.jsx
uploadUiVars == <<content, isUploading, uploadStatus, statusMessage, uploads, statusOf, timers>>

\* the state of the frontend
uiVars == <<chatUiVars, uploadUiVars>>

vars == <<vectorStore, index, reqs, served, chatVars, limiterVars, uiVars>>

----------------------------------------------------------------------------
(* Bounds of the model *)

\* letters a "B" token stands for
BlockLen == 600
\* rows splitDocument.js has stored before the server starts (or none)
MaxSeed == 4
\* requests the server accepts in one behaviour
MaxRequests == 2
\* requests in flight at the same time
MaxInFlight == 2

(* Program constants *)

chunkSize == 1000
chunkOverlap == 200
chatLimit == 5
directQueryLimit == 3
previewLength == 200

----------------------------------------------------------------------------
(* Values *)

\* JavaScript's null and undefined
Null == <<"null">>
Undefined == <<"undefined">>

Tokens == {" ", "a", "B"}

\* String.prototype.length of a text
RECURSIVE length(_)
length(t) ==
    IF t = <<>> THEN 0
    ELSE (IF Head(t) = "B" THEN BlockLen ELSE 1) + length(Tail(t))

\* String.prototype.trim
RECURSIVE trimStart(_)
trimStart(t) == IF t # <<>> /\ Head(t) = " " THEN trimStart(Tail(t)) ELSE t

RECURSIVE trimEnd(_)
trimEnd(t) ==
    IF t # <<>> /\ t[Len(t)] = " " THEN trimEnd(SubSeq(t, 1, Len(t) - 1)) ELSE t

trim(t) == trimEnd(trimStart(t))

\* text.substring(0, n); "b" stands for the letters of a block that are left
\* when the cut falls inside it
RECURSIVE substring(_, _)
substring(t, n) ==
    IF t = <<>> \/ n <= 0 THEN <<>>
    ELSE LET w == IF Head(t) = "B" THEN BlockLen ELSE 1
         IN  IF w <= n THEN <<Head(t)>> \o substring(Tail(t), n - w)
             ELSE <<"b">>

RECURSIVE concat(_)
concat(pieces) == IF pieces = <<>> THEN <<>> ELSE Head(pieces) \o concat(Tail(pieces))

RECURSIVE totalLength(_)
totalLength(pieces) ==
    IF pieces = <<>> THEN 0 ELSE length(Head(pieces)) + totalLength(Tail(pieces))

----------------------------------------------------------------------------
(* RecursiveCharacterTextSplitter({chunkSize: 1000, chunkOverlap: 200}),   *)
(* as langchain computes it.  Its separators are "\n\n", "\n", " " and     *)
(* "": the texts of the model hold no line break, so the separator is " "  *)
(* when the text holds a blank, and "" otherwise.  keepSeparator is true:  *)
(* a piece keeps the blank it was split at, in front, and the pieces are   *)
(* merged with the empty separator.                                        *)

\* text.split(/(?= )/).filter(s => s !== ""): a new piece starts at each blank.
\* With the separator "" every token is a piece of its own.
RECURSIVE splitOnSeparator(_, _)
splitOnSeparator(text, separator) ==
    IF text = <<>> THEN <<>>
    ELSE LET init == SubSeq(text, 1, Len(text) - 1)
             last == text[Len(text)]
             before == splitOnSeparator(init, separator)
         IN  IF separator = "" \/ last = " " \/ before = <<>>
             THEN Append(before, <<last>>)
             ELSE [before EXCEPT ![Len(before)] = Append(@, last)]

\* joinDocs without the trim
joinDocsUntrimmed(currentDoc) ==
    IF trim(concat(currentDoc)) = <<>> THEN <<>> ELSE <<concat(currentDoc)>>

\* joinDocs: the pieces joined and trimmed; null (no chunk) when nothing is left
joinDocs(currentDoc) ==
    LET text == trim(concat(currentDoc))
    IN  IF text = <<>> THEN <<>> ELSE <<text>>

\* the while loop of mergeSplits that drops pieces from the front of currentDoc
RECURSIVE popSplits(_, _)
popSplits(currentDoc, len) ==
    LET total == totalLength(currentDoc)
    IN  IF total > chunkOverlap \/ (total + len > chunkSize /\ total > 0)
        THEN popSplits(Tail(currentDoc), len)
        ELSE currentDoc

RECURSIVE mergeLoop(_, _, _)
mergeLoop(docs, currentDoc, splits) ==
    IF splits = <<>> THEN docs \o joinDocs(currentDoc)
    ELSE LET d == Head(splits)
             len == length(d)
             full == totalLength(currentDoc) + len > chunkSize /\ currentDoc # <<>>
         IN  mergeLoop(IF full THEN docs \o joinDocs(currentDoc) ELSE docs,
                       Append(IF full THEN popSplits(currentDoc, len) ELSE currentDoc, d),
                       Tail(splits))

mergeSplits(splits) == mergeLoop(<<>>, <<>>, splits)

\* The pieces a text is cut into must each be shorter than chunkSize: the
\* splitter's recursion into a longer piece is outside the model.
ValidContent(text) ==
    /\ \A i \in 1..Len(text) : text[i] \in Tokens
    /\ \A p \in {splitOnSeparator(text, " ")[i] : i \in 1..Len(splitOnSeparator(text, " "))} :
            length(p) < chunkSize
    /\ (\A i \in 1..Len(text) : text[i] # " ") => length(text) < chunkSize

\* The documents a client uploads: the empty text, a blank, a letter, a
\* letter behind a blank, two words, and two blocks (more than chunkSize).
Texts ==
    {t \in {<<>>, <<" ">>, <<"a">>, <<" ", "a">>, <<"a", " ", "a">>, <<"B", " ", "B">>} :
        ValidContent(t)}

splitText(text) ==
    LET separator == IF \E i \in 1..Len(text) : text[i] = " " THEN " " ELSE ""
    IN  mergeSplits(splitOnSeparator(text, separator))

\* textSplitter.createDocuments([content], [metadata]): one Document per
\* chunk, the metadata extended by the chunk's place in the text.
createDocuments(text, metadata) ==
    LET chunks == splitText(text)
    IN  [i \in 1..Len(chunks) |->
            [pageContent |-> chunks[i],
             metadata |-> metadata \cup {<<"loc", "lines 1-1">>}]]

----------------------------------------------------------------------------
(* Errors.  A JavaScript error is its name (the kind a caller could match  *)
(* on) and its message, a sequence of fragments: String.prototype.includes *)
(* finds a fragment, and a template literal concatenates.                  *)

Error(message) == [name |-> "Error", message |-> message]

\* no error
NoError == [name |-> "", message |-> <<>>]

includes(message, fragment) == \E i \in 1..Len(message) : message[i] = fragment

\* what the OpenAI client throws on HTTP 429 (embeddings through langchain,
\* completions through the openai package), and on a transport failure
EmbeddingFailures ==
    { [name |-> "InsufficientQuotaError",
       message |-> <<"429", " You exceeded your current quota">>],
      [name |-> "APIConnectionError", message |-> <<"Connection error.">>] }

GenerationFailures ==
    { [name |-> "RateLimitError",
       message |-> <<"429", " You exceeded your current quota">>],
      [name |-> "APIConnectionError", message |-> <<"Connection error.">>] }

\* what SupabaseVectorStore throws when the match_documents call fails
SearchFailures ==
    { [name |-> "Error",
       message |-> <<"Error searching for documents: ", "fetch failed">>],
      [name |-> "Error",
       message |-> <<"Error searching for documents: ", "connect ECONNREFUSED 10.0.0.7:5", "429">>] }

\* what SupabaseVectorStore throws when the upsert fails
InsertFailures ==
    { [name |-> "Error", message |-> <<"Error inserting: ", "fetch failed">>] }

\* the error of a failed count query
CountFailures ==
    { [name |-> "PostgrestError", message |-> <<"relation documents does not exist">>] }

QuotaMessage == <<"OpenAI API quota exceeded. Please check your billing or try again later.">>

IsQuotaFailure(e) == e.name \in {"InsufficientQuotaError", "RateLimitError"}

----------------------------------------------------------------------------
(* The catch blocks of RAGService *)

uploadDocumentCatch(error) == Error(<<"Failed to upload document: ">> \o error.message)

\* a catch block that drops the cause
chatCatchDropsCause(error) == Error(<<"Failed to generate response">>)

chatCatch(error) == Error(<<"Failed to generate response: ">> \o error.message)

directQueryCatch(error) == Error(<<"Failed to process direct query: ">> \o error.message)

\* a catch block without the quota checks
searchDocumentsCatchNoQuota(error) == Error(<<"Failed to search documents: ">> \o error.message)

searchDocumentsCatch(error) ==
    IF includes(error.message, "429") THEN Error(QuotaMessage)
    ELSE IF includes(error.message, "InsufficientQuotaError") THEN Error(QuotaMessage)
    ELSE Error(<<"Failed to search documents: ">> \o error.message)

generatePersonaResponseCatch(error) ==
    IF includes(error.message, "429") THEN Error(QuotaMessage)
    ELSE IF includes(error.message, "InsufficientQuotaError") THEN Error(QuotaMessage)
    ELSE Error(<<"Failed to generate response: ">> \o error.message)

\* the catch block of chat or of directQuery, by route
serviceCatch(route, error) ==
    IF route = "chat" THEN chatCatch(error) ELSE directQueryCatch(error)

----------------------------------------------------------------------------
(* HTTP responses *)

Response(status, body) == [status |-> status, body |-> body]

\* res.json(result)
json(body) == Response(200, body)

\* return res.status(400).json({ error: '... is required' })
badRequest(text) == Response(400, [error |-> <<text>>])

\* the catch block of every route: res.status(500).json({ error: error.message })
routeCatch(error) == Response(500, [error |-> error.message])

\* server.js, the error handling middleware
errorMiddleware(err) ==
    Response(500, [error |-> <<"Internal server error">>,
                   message |-> err.message,
                   timestamp |-> "now"])

\* server.js, the 404 handler
notFoundHandler(method, url) ==
    Response(404, [error |-> <<"Route not found">>,
                   message |-> <<"Cannot ", method, " ", url>>,
                   timestamp |-> "now"])

\* body.field: undefined when the request body has no such field
get(body, field) == IF field \in DOMAIN body THEN body[field] ELSE Undefined

\* a validation that forgets the empty string
falsyMissingOnly(body, field) == field \notin DOMAIN body

\* a validation that forgets the missing field
falsyEmptyOnly(body, field) == field \in DOMAIN body /\ body[field] = <<>>

\* JavaScript's !body.field: the field is missing, or the empty string
falsy(body, field) == field \notin DOMAIN body \/ body[field] = <<>>

----------------------------------------------------------------------------
(* The vector index: the rows of the documents table *)

\* a row that holds the chunk's text without its first token
RowCutsText(doc) == [content |-> Tail(doc.pageContent), metadata |-> doc.metadata]

\* a row as addDocuments stores a Document
Row(doc) == [content |-> doc.pageContent, metadata |-> doc.metadata]

\* a Document as similaritySearch builds it from a row
Document(row) == [pageContent |-> row.content, metadata |-> row.metadata]

\* the rows utils/splitDocument.js stores from person1.txt
SeedRow(i) ==
    [content |-> <<"B">> \o [j \in 1..i |-> "a"],
     metadata |-> {<<"chunkIndex", ToString(i - 1)>>, <<"source", "person1.txt">>,
                   <<"timestamp", "now">>}]

\* The similarity of a stored text to a query, in percent.  It stands for the
\* cosine similarity of the two OpenAI embeddings, a fixed function of the
\* two texts: here the share of the text's tokens that occur in the query.
similarity(query, text) ==
    IF text = <<>> THEN 0
    ELSE (100 * Cardinality({i \in 1..Len(text) : \E j \in 1..Len(query) : query[j] = text[i]}))
            \div Len(text)

\* match_documents ordering by distance descending: the least similar first
BestLeastSimilar(query, rows, firstStored) ==
    CHOOSE r \in rows :
        \A o \in rows \ {r} :
            \/ similarity(query, index[r].content) < similarity(query, index[o].content)
            \/ /\ similarity(query, index[r].content) = similarity(query, index[o].content)
               /\ IF firstStored THEN r < o ELSE r > o

\* the row of `rows` that match_documents ranks first; among rows of equal
\* similarity the first stored, or the last stored (SQL leaves it open)
Best(query, rows, firstStored) ==
    CHOOSE r \in rows :
        \A o \in rows \ {r} :
            \/ similarity(query, index[r].content) > similarity(query, index[o].content)
            \/ /\ similarity(query, index[r].content) = similarity(query, index[o].content)
               /\ IF firstStored THEN r < o ELSE r > o

\* match_documents(query_embedding, match_count): order by similarity, limit
RECURSIVE match_documents(_, _, _, _)
match_documents(query, match_count, rows, firstStored) ==
    IF match_count = 0 \/ rows = {} THEN <<>>
    ELSE LET r == Best(query, rows, firstStored)
         IN  <<r>> \o match_documents(query, match_count - 1, rows \ {r}, firstStored)

\* vectorStore.similaritySearch(query, k), when both upstream calls succeed
similaritySearch(query, k, firstStored) ==
    LET found == match_documents(query, k, 1..Len(index), firstStored)
    IN  [i \in 1..Len(found) |-> Document(index[found[i]])]

\* results.map(doc => doc.pageContent).join('\n\n')
RECURSIVE join(_, _)
join(texts, separator) ==
    IF texts = <<>> THEN <<>>
    ELSE IF Len(texts) = 1 THEN texts[1]
    ELSE texts[1] \o <<separator>> \o join(Tail(texts), separator)

\* the context built from the last result to the first
contextLastFirst(results) ==
    join([i \in 1..Len(results) |-> results[Len(results) + 1 - i].pageContent], "\n\n")

context(results) == join([i \in 1..Len(results) |-> results[i].pageContent], "\n\n")

\* sources that carry the preview of the text the chat UI shows
sourcesTruncated(results) ==
    [i \in 1..Len(results) |->
        [content |-> substring(results[i].pageContent, previewLength) \o <<"...">>,
         metadata |-> results[i].metadata]]

\* results.map(doc => ({ content: doc.pageContent, metadata: doc.metadata }))
sources(results) ==
    [i \in 1..Len(results) |->
        [content |-> results[i].pageContent, metadata |-> results[i].metadata]]

----------------------------------------------------------------------------
(* Requests.  A request occupies a slot from its arrival until its response *)
(* is sent; the record stays in the slot until the next request takes it.   *)
(* pc is the upstream call the handler is waiting for.  docs, results and   *)
(* context are the handler's local variables of these names; calls lists    *)
(* the methods and upstream calls the request has made, seen is the number  *)
(* of rows the index held when the request read it, failure is the error an *)
(* upstream call (or a guard of the service) raised, thrown the error the   *)
(* service method rejected with.                                            *)

Slots == 1..MaxInFlight

EmptyBody == [f \in {} |-> <<>>]

NoResponse == Response(0, EmptyBody)

Idle ==
    [route |-> "none", body |-> EmptyBody, pc |-> "idle", docs |-> <<>>,
     results |-> <<>>, context |-> <<>>, seen |-> 0, calls |-> <<>>,
     failure |-> NoError, thrown |-> NoError, resp |-> NoResponse]

Free(s) == reqs[s].pc \in {"idle", "done"} /\ \A t \in Slots : t < s => reqs[t].pc \notin {"idle", "done"}

Accept(s) == Free(s) /\ served < MaxRequests

NewRequest(route, body) == [Idle EXCEPT !.route = route, !.body = body]

\* the handler has sent its response
Done(r, resp) == [r EXCEPT !.pc = "done", !.resp = resp]

\* The slot s takes the record r.  Only the last response sent is kept: when
\* r is done, the slots of the requests answered before are cleared.
Put(s, r) ==
    [t \in Slots |->
        IF t = s THEN r
        ELSE IF r.pc = "done" /\ reqs[t].pc = "done" THEN Idle
        ELSE reqs[t]]

UserMetadata == {<<"title", "doc">>}

\* the bodies of POST /upload: content and metadata are both optional
UploadBodies ==
    {EmptyBody} \cup {[metadata |-> UserMetadata]}
    \cup {[content |-> c] : c \in Texts}
    \cup {[content |-> c, metadata |-> UserMetadata] : c \in {t \in Texts : trim(t) = t}}

\* the questions a client asks
MessageTexts == {<<>>, <<"a">>, <<"B">>}

SessionIds == {<<"s1">>, <<"s2">>}

\* the bodies of POST /chat: message and sessionId are both optional
ChatBodies ==
    {EmptyBody} \cup {[sessionId |-> <<"s1">>]}
    \cup {[message |-> m] : m \in MessageTexts}
    \cup {[message |-> m, sessionId |-> <<"s1">>] : m \in MessageTexts \ {<<"B">>}}

\* a chat request that names a session of the chat router
SessionChatBodies == {[message |-> <<"a">>, sessionId |-> id] : id \in issued}

QueryBodies == {EmptyBody} \cup {[query |-> q] : q \in MessageTexts}

\* no session was started yet: the ids of the sessions POST /start has
\* created, the ids of the sessions DELETE has ended, and for every session
\* that has not ended the number of POST /message answered with success
NoSessionLog == [started |-> {}, ended |-> {}, posted |-> [id \in {} |-> 0]]

\* the chat router has answered no request yet
NoChatRequest == [route |-> "none", body |-> EmptyBody, resp |-> NoResponse]

\* the rate limiter's store holds no counter for the client: no window is
\* open; windows counts the windows opened so far
NewStore == [phase |-> "closed", totalHits |-> 0, windows |-> 0]

\* the requests under /api/ that got past the limiter, counted for the late
\* half of the window before the current one and for the early and the late
\* half of the current window
NothingHandled == [previous |-> 0, early |-> 0, late |-> 0]

\* the server has answered no request yet
NoApiRequest == [path |-> "none", router |-> "none", resp |-> NoResponse]

\* The frontend after its first render: the useState initial values of
\* ChatInterface (no message, an empty input, no request in flight) and of
\* DocumentUpload (an empty form, status idle).  uploads counts the uploads
\* the form has sent, statusOf is the upload whose outcome uploadStatus
\* shows (0 for none), timers holds the pending 5-second timers, each with
\* the number of the upload that started it.
InitUi ==
    /\ messages = <<>>
    /\ inputMessage = <<>>
    /\ isLoading = FALSE
    /\ pending = <<>>
    /\ content = <<>>
    /\ isUploading = FALSE
    /\ uploadStatus = "idle"
    /\ statusMessage = <<>>
    /\ uploads = 0
    /\ statusOf = 0
    /\ timers = <<>>

\* initializeVectorStore, called by the constructor: vectorStore is the new
\* SupabaseVectorStore (TRUE), or stays null (FALSE) when constructing it threw
initializeVectorStore(threw) == ~threw

Init ==
    /\ \E threw \in BOOLEAN : vectorStore = initializeVectorStore(threw)
    /\ index \in {<<>>, [i \in 1..MaxSeed |-> SeedRow(i)]}
    /\ reqs = [s \in Slots |-> Idle]
    /\ served = 0
    /\ chatSessions = <<>>
    /\ issued = {}
    /\ chatResp = NoChatRequest
    /\ sessionLog = NoSessionLog
    /\ store = NewStore
    /\ handled = NothingHandled
    /\ apiResp = NoApiRequest
    /\ InitUi

----------------------------------------------------------------------------
(* POST /api/rag/upload and RAGService.uploadDocument *)

\* const { content, metadata = {} } = req.body
metadataOf(body) == IF "metadata" \in DOMAIN body THEN body.metadata ELSE {}

\* what uploadDocument returns
uploadResult(docs, metadata) ==
    [success |-> TRUE, message |-> "Document uploaded successfully",
     chunks |-> Len(docs), metadata |-> metadata]

\* if (this.vectorStore): the chunks go to the vector store only then
storesDocuments == vectorStore

\* The route and the part of uploadDocument that runs before the first
\* upstream call.
PostUpload(s) ==
    /\ Accept(s)
    /\ \E body \in UploadBodies :
         LET r == NewRequest("upload", body)
             docs == createDocuments(get(body, "content"), metadataOf(body))
         IN  reqs' = Put(s,
                IF falsy(body, "content")
                THEN Done(r, badRequest("Document content is required"))
                ELSE IF storesDocuments
                THEN [r EXCEPT !.pc = "addDocuments", !.docs = docs,
                               !.calls = <<"uploadDocument", "createDocuments">>]
                ELSE Done([r EXCEPT !.docs = docs,
                                    !.calls = <<"uploadDocument", "createDocuments">>],
                          json(uploadResult(docs, metadataOf(body)))))
    /\ served' = served + 1
    /\ UNCHANGED <<vectorStore, index, chatVars, limiterVars, uiVars>>

\* a failure inside uploadDocument's try block, up to the route's response
uploadFailed(r, calls, error) ==
    Done([r EXCEPT !.calls = @ \o calls, !.failure = error,
                   !.thrown = uploadDocumentCatch(error)],
         routeCatch(uploadDocumentCatch(error)))

\* an upsert that leaves only the new chunks in the table
upsertReplacesRows(docs) == [i \in 1..Len(docs) |-> Row(docs[i])]

\* the documents table after addDocuments has upserted the chunks: the rows
\* carry no id, so each chunk becomes a new row after the rows present
upsert(docs) == index \o [i \in 1..Len(docs) |-> Row(docs[i])]

\* await this.vectorStore.addDocuments(docs): the chunks are embedded in one
\* call and upserted in one statement; with no chunk, no call is made.
AddDocuments(s) ==
    LET r == reqs[s] IN
    /\ r.pc = "addDocuments"
    /\ \/ /\ r.docs # <<>>
          /\ \E e \in EmbeddingFailures :
                reqs' = Put(s, uploadFailed(r, <<"embedDocuments">>, e))
          /\ UNCHANGED index
       \/ /\ r.docs # <<>>
          /\ \E e \in InsertFailures :
                reqs' = Put(s, uploadFailed(r, <<"embedDocuments", "upsert">>, e))
          /\ UNCHANGED index
       \/ /\ index' = upsert(r.docs)
          /\ reqs' = Put(s,
                Done([r EXCEPT !.seen = Len(index),
                               !.calls = @ \o (IF r.docs = <<>> THEN <<>>
                                               ELSE <<"embedDocuments", "upsert">>)],
                     json(uploadResult(r.docs, metadataOf(r.body)))))
    /\ UNCHANGED <<vectorStore, served, chatVars, limiterVars, uiVars>>

----------------------------------------------------------------------------
(* POST /api/rag/chat, POST /api/rag/query; RAGService.chat, directQuery,   *)
(* searchDocuments and generatePersonaResponse                              *)

\* directQuery asking for as many documents as chat
limitOfChat(route) == chatLimit

\* the limit chat and directQuery pass to searchDocuments
limitOf(route) == IF route = "chat" THEN chatLimit ELSE directQueryLimit

\* the field of the body that holds the question
questionField(route) == IF route = "chat" THEN "message" ELSE "query"

\* chat(message, sessionId = null)
sessionIdOf(body) == IF "sessionId" \in DOMAIN body THEN body.sessionId ELSE Null

\* a failed search tried again instead of being answered
searchFailedRetries(r, calls, error) ==
    [r EXCEPT !.pc = "similaritySearch", !.calls = @ \o calls]

\* a failure inside searchDocuments' try block, up to the route's response
searchFailed(r, calls, error) ==
    Done([r EXCEPT !.calls = @ \o calls, !.failure = error,
                   !.thrown = serviceCatch(r.route, searchDocumentsCatch(error))],
         routeCatch(serviceCatch(r.route, searchDocumentsCatch(error))))

\* a failed generation answered with an empty response and the sources
generateFailedAnswers(r, calls, error) ==
    Done([r EXCEPT !.calls = @ \o calls, !.failure = error],
         json([response |-> <<>>, sources |-> sources(r.results)]))

\* a failure inside generatePersonaResponse's try block, up to the response
generateFailed(r, calls, error) ==
    Done([r EXCEPT !.calls = @ \o calls, !.failure = error,
                   !.thrown = serviceCatch(r.route, generatePersonaResponseCatch(error))],
         routeCatch(serviceCatch(r.route, generatePersonaResponseCatch(error))))

\* searchDocuments skipping the search when there is no vector store, the
\* way uploadDocument skips addDocuments
searchDocumentsSkips(r) ==
    IF ~vectorStore
    THEN [r EXCEPT !.pc = "generate", !.calls = @ \o <<"searchDocuments", "generatePersonaResponse">>]
    ELSE [r EXCEPT !.pc = "similaritySearch", !.calls = @ \o <<"searchDocuments">>]

\* searchDocuments up to its first upstream call:
\* if (!this.vectorStore) throw new Error('Vector store not initialized')
searchDocuments(r) ==
    IF ~vectorStore
    THEN searchFailed(r, <<"searchDocuments">>, Error(<<"Vector store not initialized">>))
    ELSE [r EXCEPT !.pc = "similaritySearch", !.calls = @ \o <<"searchDocuments">>]

\* The route and the service method, which calls searchDocuments first.
Ask(route, body) ==
    LET r == NewRequest(route, body)
        service == IF route = "chat" THEN "chat" ELSE "directQuery"
    IN  IF falsy(body, questionField(route))
        THEN Done(r, badRequest(IF route = "chat" THEN "Message is required"
                                ELSE "Query is required"))
        ELSE searchDocuments([r EXCEPT !.calls = <<service>>])

PostChat(s) ==
    /\ Accept(s)
    /\ \E body \in ChatBodies \cup SessionChatBodies : reqs' = Put(s, Ask("chat", body))
    /\ served' = served + 1
    /\ UNCHANGED <<vectorStore, index, chatVars, limiterVars, uiVars>>

PostQuery(s) ==
    /\ Accept(s)
    /\ \E body \in QueryBodies : reqs' = Put(s, Ask("query", body))
    /\ served' = served + 1
    /\ UNCHANGED <<vectorStore, index, chatVars, limiterVars, uiVars>>

\* await this.vectorStore.similaritySearch(query, limit): the query is
\* embedded, then match_documents runs; on success the service method builds
\* the context and generatePersonaResponse issues the completion call.
SimilaritySearch(s) ==
    LET r == reqs[s]
        query == get(r.body, questionField(r.route))
    IN
    /\ r.pc = "similaritySearch"
    /\ \/ \E e \in EmbeddingFailures :
            reqs' = Put(s, searchFailed(r, <<"embedQuery">>, e))
       \/ \E e \in SearchFailures :
            reqs' = Put(s, searchFailed(r, <<"embedQuery", "match_documents">>, e))
       \/ \E firstStored \in BOOLEAN :
            LET results == similaritySearch(query, limitOf(r.route), firstStored)
            IN  reqs' = Put(s,
                    [r EXCEPT !.pc = "generate", !.results = results,
                              !.context = context(results), !.seen = Len(index),
                              !.calls = @ \o <<"embedQuery", "match_documents",
                                               "generatePersonaResponse">>])
    /\ UNCHANGED <<vectorStore, index, served, chatVars, limiterVars, uiVars>>

\* what chat and directQuery return
answer(r, response) ==
    IF r.route = "chat"
    THEN [response |-> response, sources |-> sources(r.results),
          sessionId |-> sessionIdOf(r.body)]
    ELSE [query |-> get(r.body, "query"), response |-> response, sources |-> sources(r.results)]

\* await this.openai.chat.completions.create(...)
Generate(s) ==
    LET r == reqs[s] IN
    /\ r.pc = "generate"
    /\ \/ \E e \in GenerationFailures :
            reqs' = Put(s, generateFailed(r, <<"completions.create">>, e))
       \/ reqs' = Put(s,
            Done([r EXCEPT !.calls = @ \o <<"completions.create">>],
                 json(answer(r, <<"reply">>))))
    /\ UNCHANGED <<vectorStore, index, served, chatVars, limiterVars, uiVars>>

----------------------------------------------------------------------------
(* GET /api/rag/stats, GET /api/rag/health, GET /api/rag/session/:sessionId *)

\* What the count query delivers: {count, error: null}, {count: null, error},
\* or a rejected promise.
CountOutcomes ==
    {[kind |-> "data", count |-> Len(index)]}
    \cup {[kind |-> k, error |-> e] : k \in {"error", "rejected"}, e \in CountFailures}

\* getStats without `if (error) throw error`: a failed count reads as 0 rows
getStatsIgnoresError(outcome) ==
    [totalDocuments |-> IF outcome.kind = "data" THEN outcome.count ELSE 0,
     vectorStoreStatus |-> IF vectorStore THEN "active" ELSE "inactive",
     timestamp |-> "now"]

\* getStats reporting an active vector store without looking at vectorStore
getStatsAlwaysActive(outcome) ==
    IF outcome.kind = "data"
    THEN [totalDocuments |-> outcome.count, vectorStoreStatus |-> "active",
          timestamp |-> "now"]
    ELSE [totalDocuments |-> 0, vectorStoreStatus |-> "error",
          error |-> outcome.error.message, timestamp |-> "now"]

\* getStats: `if (error) throw error` and a rejection both end in the catch block
getStats(outcome) ==
    IF outcome.kind = "data"
    THEN [totalDocuments |-> outcome.count,
          vectorStoreStatus |-> IF vectorStore THEN "active" ELSE "inactive",
          timestamp |-> "now"]
    ELSE [totalDocuments |-> 0, vectorStoreStatus |-> "error",
          error |-> outcome.error.message, timestamp |-> "now"]

\* healthCheck: getStats never rejects, so its catch block is never entered
healthCheck(outcome) ==
    LET stats == getStats(outcome)
    IN  [status |-> "healthy", vectorStore |-> stats.vectorStoreStatus,
         documents |-> stats.totalDocuments, timestamp |-> "now"]

\* a session that reports the messages the chat router holds for the id
getSessionOfChatRouter(sessionId) ==
    [id |-> sessionId, createdAt |-> "now",
     messageCount |->
        IF \E i \in 1..Len(chatSessions) : chatSessions[i].key = sessionId
        THEN Len(chatSessions[CHOOSE i \in 1..Len(chatSessions) :
                                 chatSessions[i].key = sessionId].value.messages)
        ELSE 0]

\* getSession: a mock session
getSession(sessionId) == [id |-> sessionId, createdAt |-> "now", messageCount |-> 0]

GetStats(s) ==
    /\ Accept(s)
    /\ reqs' = Put(s,
            [NewRequest("stats", EmptyBody) EXCEPT !.pc = "count", !.calls = <<"getStats">>])
    /\ served' = served + 1
    /\ UNCHANGED <<vectorStore, index, chatVars, limiterVars, uiVars>>

GetHealth(s) ==
    /\ Accept(s)
    /\ reqs' = Put(s,
            [NewRequest("health", EmptyBody) EXCEPT !.pc = "count",
                                                    !.calls = <<"healthCheck", "getStats">>])
    /\ served' = served + 1
    /\ UNCHANGED <<vectorStore, index, chatVars, limiterVars, uiVars>>

\* await this.supabase.from('documents').select('*', {count: 'exact', head: true})
CountDocuments(s) ==
    LET r == reqs[s] IN
    /\ r.pc = "count"
    /\ \E outcome \in CountOutcomes :
         reqs' = Put(s,
            Done([r EXCEPT !.calls = @ \o <<"count">>, !.seen = Len(index),
                           !.failure = IF outcome.kind = "data" THEN NoError
                                       ELSE outcome.error],
                 json(IF r.route = "stats" THEN getStats(outcome) ELSE healthCheck(outcome))))
    /\ UNCHANGED <<vectorStore, index, served, chatVars, limiterVars, uiVars>>

GetSession(s) ==
    /\ Accept(s)
    /\ \E sessionId \in SessionIds \cup issued :
         reqs' = Put(s,
            Done([NewRequest("session", [sessionId |-> sessionId])
                    EXCEPT !.calls = <<"getSession">>],
                 json(getSession(sessionId))))
    /\ served' = served + 1
    /\ UNCHANGED <<vectorStore, index, chatVars, limiterVars, uiVars>>

----------------------------------------------------------------------------
(* server.js: a body express.json cannot parse goes to the error handling   *)
(* middleware, a path no router serves to the 404 handler.                  *)

MalformedBody(s) ==
    /\ Accept(s)
    /\ reqs' = Put(s,
            Done(NewRequest("malformed", EmptyBody),
                 errorMiddleware([name |-> "SyntaxError",
                                  message |-> <<"Unexpected token in JSON">>])))
    /\ served' = served + 1
    /\ UNCHANGED <<vectorStore, index, chatVars, limiterVars, uiVars>>

UnknownRoute(s) ==
    /\ Accept(s)
    /\ reqs' = Put(s,
            Done(NewRequest("unknown", EmptyBody), notFoundHandler("GET", "/api/nothing")))
    /\ served' = served + 1
    /\ UNCHANGED <<vectorStore, index, chatVars, limiterVars, uiVars>>

----------------------------------------------------------------------------

Next ==
    \E s \in Slots :
        \/ PostUpload(s)
        \/ AddDocuments(s)
        \/ PostChat(s)
        \/ PostQuery(s)
        \/ SimilaritySearch(s)
        \/ Generate(s)
        \/ GetStats(s)
        \/ GetHealth(s)
        \/ CountDocuments(s)
        \/ GetSession(s)
        \/ MalformedBody(s)
        \/ UnknownRoute(s)

Spec == Init /\ [][Next]_vars

----------------------------------------------------------------------------
(* routes/chat.js: the chat sessions, kept in a Map in memory.  The         *)
(* handlers await nothing, so each runs from the request to its response in *)
(* one step.  issued is the set of ids uuidv4 has returned; chatResp is the *)
(* last request the router handled (its route, its body or parameters) and  *)
(* the response it sent.  sessionLog is the history of the sessions as the  *)
(* clients saw it in the responses: which were started, which were ended,   *)
(* and how many messages each live session accepted.                        *)

\* the RAG service's part of the state
ragVars == <<vectorStore, index, reqs, served>>

\* ids uuidv4 can return in one behaviour
MaxIds == 3

Ids == {<<"uuid", ToString(i)>> : i \in 1..MaxIds}

\* an id uuidv4 never returned
UnknownId == <<"uuid", "0">>

\* a generator that can return an id it has returned before
uuidv4Repeats == Ids

\* uuidv4(): the ids a call can return; a random 122-bit id is taken never
\* to repeat
uuidv4 == Ids \ issued

\* A Map: its entries in the order of insertion.
mapHas(map, key) == \E i \in 1..Len(map) : map[i].key = key

\* map.get(key), for a key the map has
mapGet(map, key) == map[CHOOSE i \in 1..Len(map) : map[i].key = key].value

\* map.set(key, value): a known key keeps its place
mapSet(map, key, value) ==
    IF mapHas(map, key)
    THEN [i \in 1..Len(map) |-> IF map[i].key = key THEN [key |-> key, value |-> value]
                                ELSE map[i]]
    ELSE Append(map, [key |-> key, value |-> value])

\* a delete that removes nothing
mapDeleteKeeps(map, key) == map

\* map.delete(key)
RECURSIVE mapDelete(_, _)
mapDelete(map, key) ==
    IF map = <<>> THEN <<>>
    ELSE IF Head(map).key = key THEN mapDelete(Tail(map), key)
    ELSE <<Head(map)>> \o mapDelete(Tail(map), key)

\* Array.from(map.values())
mapValues(map) == [i \in 1..Len(map) |-> map[i].value]

\* the bodies of POST /start: metadata is optional
StartBodies == {EmptyBody, [metadata |-> UserMetadata]}

\* the session ids a client sends: every id issued so far and an unknown one
AskedIds == issued \cup {UnknownId}

\* the bodies of POST /message: sessionId, message and type are optional
MessageBodies ==
    {EmptyBody, [message |-> <<"a">>]}
    \cup {[sessionId |-> id] : id \in AskedIds}
    \cup {[sessionId |-> id, message |-> m] : id \in AskedIds, m \in MessageTexts}
    \cup {[sessionId |-> id, message |-> <<"a">>, type |-> "assistant"] : id \in AskedIds}

\* req.body.metadata || {}
metadataOrEmpty(body) == IF "metadata" \in DOMAIN body THEN body.metadata ELSE {}

\* the session POST /start creates
newSession(sessionId, body) ==
    [id |-> sessionId, createdAt |-> "now", messages |-> <<>>,
     metadata |-> metadataOrEmpty(body)]

\* const { sessionId, message, type = 'user' } = req.body
typeOf(body) == IF "type" \in DOMAIN body THEN body.type ELSE "user"

\* the message POST /message adds
messageObj(id, body) ==
    [id |-> id, content |-> body.message, type |-> typeOf(body), timestamp |-> "now"]

\* a push that puts the message in front
pushFront(array, message) == <<message>> \o array

\* session.messages.push(messageObj)
push(array, message) == Append(array, message)

\* return res.status(404).json({ error: 'Chat session not found' })
sessionNotFound == Response(404, [error |-> <<"Chat session not found">>])

\* router.post('/start')
PostStart ==
    /\ \E body \in StartBodies, sessionId \in uuidv4 :
         LET session == newSession(sessionId, body) IN
         /\ chatSessions' = mapSet(chatSessions, sessionId, session)
         /\ issued' = issued \cup {sessionId}
         /\ sessionLog' = [sessionLog EXCEPT
                !.started = @ \cup {sessionId},
                !.posted = [id \in DOMAIN @ \cup {sessionId} |->
                               IF id = sessionId THEN 0 ELSE @[id]]]
         /\ chatResp' = [route |-> "start", body |-> body,
                         resp |-> json([sessionId |-> sessionId,
                                        message |-> <<"Chat session started successfully">>,
                                        session |-> session])]
    /\ UNCHANGED <<ragVars, limiterVars, uiVars>>

\* router.post('/message')
PostMessage ==
    /\ \E body \in MessageBodies :
         IF falsy(body, "sessionId") \/ falsy(body, "message")
         THEN /\ chatResp' = [route |-> "message", body |-> body,
                              resp |-> badRequest("Session ID and message are required")]
              /\ UNCHANGED <<chatSessions, issued, sessionLog>>
         ELSE IF ~mapHas(chatSessions, body.sessionId)
         THEN /\ chatResp' = [route |-> "message", body |-> body, resp |-> sessionNotFound]
              /\ UNCHANGED <<chatSessions, issued, sessionLog>>
         ELSE \E id \in uuidv4 :
                LET old == mapGet(chatSessions, body.sessionId)
                    session == [old EXCEPT !.messages = push(@, messageObj(id, body))]
                IN  /\ chatSessions' = mapSet(chatSessions, body.sessionId, session)
                    /\ issued' = issued \cup {id}
                    /\ sessionLog' = [sessionLog EXCEPT !.posted[body.sessionId] = @ + 1]
                    /\ chatResp' = [route |-> "message", body |-> body,
                                    resp |-> json([message |-> <<"Message sent successfully">>,
                                                   messageObj |-> messageObj(id, body),
                                                   session |-> session])]
    /\ UNCHANGED <<ragVars, limiterVars, uiVars>>

\* router.get('/session/:sessionId')
GetChatSession ==
    /\ \E sessionId \in AskedIds :
         chatResp' = [route |-> "session", body |-> [sessionId |-> sessionId],
                      resp |-> IF mapHas(chatSessions, sessionId)
                               THEN json(mapGet(chatSessions, sessionId))
                               ELSE sessionNotFound]
    /\ UNCHANGED <<chatSessions, issued, sessionLog, ragVars, limiterVars, uiVars>>

\* router.delete('/session/:sessionId')
DeleteChatSession ==
    /\ \E sessionId \in AskedIds :
         /\ chatSessions' = mapDelete(chatSessions, sessionId)
         /\ sessionLog' = IF mapHas(chatSessions, sessionId)
                          THEN [sessionLog EXCEPT
                                  !.ended = @ \cup {sessionId},
                                  !.posted = [id \in DOMAIN @ \ {sessionId} |-> @[id]]]
                          ELSE sessionLog
         /\ chatResp' = [route |-> "delete", body |-> [sessionId |-> sessionId],
                         resp |-> IF mapHas(chatSessions, sessionId)
                                  THEN json([message |-> <<"Chat session ended successfully">>])
                                  ELSE sessionNotFound]
    /\ UNCHANGED <<issued, ragVars, limiterVars, uiVars>>

\* an entry that counts no message
sessionSummaryEmpty(session) ==
    [id |-> session.id, createdAt |-> session.createdAt,
     messageCount |-> 0, metadata |-> session.metadata]

\* one entry of GET /sessions
sessionSummary(session) ==
    [id |-> session.id, createdAt |-> session.createdAt,
     messageCount |-> Len(session.messages), metadata |-> session.metadata]

\* router.get('/sessions')
GetChatSessions ==
    /\ chatResp' = [route |-> "sessions", body |-> EmptyBody,
                    resp |-> json([i \in 1..Len(chatSessions) |->
                                      sessionSummary(mapValues(chatSessions)[i])])]
    /\ UNCHANGED <<chatSessions, issued, sessionLog, ragVars, limiterVars, uiVars>>

NextChat ==
    \/ PostStart
    \/ PostMessage
    \/ GetChatSession
    \/ DeleteChatSession
    \/ GetChatSessions

\* The chat router does not use the RAG service: its behaviours are explored
\* from the one initial state with a vector store and an empty index.
InitChat == Init /\ vectorStore /\ index = <<>>

SpecChat == InitChat /\ [][NextChat]_vars

----------------------------------------------------------------------------

(* The chat router and the RAG service in one server: /api/rag/chat and     *)
(* /api/rag/session/:sessionId are asked with the ids of sessions that were *)
(* started and filled through /api/chat.  The behaviours start in a state   *)
(* the chat router has reached: no session, a session without a message, a  *)
(* session with one message.                                                *)

\* the first session POST /start has created, with the response it sent
StartedSession ==
    LET sessionId == <<"uuid", "1">>
        session == newSession(sessionId, EmptyBody)
    IN  [chatSessions |-> mapSet(<<>>, sessionId, session),
         issued |-> {sessionId},
         chatResp |-> [route |-> "start", body |-> EmptyBody,
                       resp |-> json([sessionId |-> sessionId,
                                      message |-> <<"Chat session started successfully">>,
                                      session |-> session])],
         sessionLog |-> [started |-> {sessionId}, ended |-> {},
                         posted |-> [id \in {sessionId} |-> 0]]]

\* that session after POST /message has added one message to it
FilledSession ==
    LET sessionId == <<"uuid", "1">>
        id == <<"uuid", "2">>
        body == [sessionId |-> sessionId, message |-> <<"a">>]
        old == mapGet(StartedSession.chatSessions, sessionId)
        session == [old EXCEPT !.messages = push(@, messageObj(id, body))]
    IN  [chatSessions |-> mapSet(StartedSession.chatSessions, sessionId, session),
         issued |-> {sessionId, id},
         chatResp |-> [route |-> "message", body |-> body,
                       resp |-> json([message |-> <<"Message sent successfully">>,
                                      messageObj |-> messageObj(id, body),
                                      session |-> session])],
         sessionLog |-> [started |-> {sessionId}, ended |-> {},
                         posted |-> [i \in {sessionId} |-> 1]]]

NoSession ==
    [chatSessions |-> <<>>, issued |-> {}, chatResp |-> NoChatRequest,
     sessionLog |-> NoSessionLog]

InitSession ==
    /\ vectorStore = initializeVectorStore(FALSE)
    /\ index = <<>>
    /\ reqs = [s \in Slots |-> Idle]
    /\ served = 0
    /\ \E chat \in {NoSession, StartedSession, FilledSession} :
         /\ chatSessions = chat.chatSessions
         /\ issued = chat.issued
         /\ chatResp = chat.chatResp
         /\ sessionLog = chat.sessionLog
    /\ store = NewStore
    /\ handled = NothingHandled
    /\ apiResp = NoApiRequest
    /\ InitUi

NextSession ==
    \E s \in Slots :
        \/ PostChat(s)
        \/ SimilaritySearch(s)
        \/ Generate(s)
        \/ GetSession(s)

SpecSession == InitSession /\ [][NextSession]_vars

----------------------------------------------------------------------------

(* server.js: the rate limiter in front of the routes under /api/, for the  *)
(* requests of one client IP.  The limiter's store counts the client's hits *)
(* in the current window: the window opens with the client's first request, *)
(* lasts windowMs (15 minutes) and then closes, which drops the count.  A   *)
(* window has an early and a late half; the requests of the late half of    *)
(* one window and of the early half of the next can lie within 15 minutes.  *)
(* apiResp is the last request the server got: its path, the router that    *)
(* got it ("none" when the limiter answered) and the response the limiter   *)
(* or the app itself sent (none when a router got the request).             *)

\* max: 100
max == 100

\* requests beyond max the client sends in one window
MaxOver == 1

\* windows the limiter opens in one behaviour
MaxWindows == 2

\* the paths the client asks for, as their segments
Paths == {<<"api", "rag">>, <<"api", "chat">>, <<"api", "health">>, <<"health">>}

\* app.use('/api/', limiter): the limiter sees the paths under /api/
limited(path) == path[1] = "api"

\* app.use('/api/rag', ...), app.use('/api/chat', ...), app.use('/api/health', ...)
\* and app.get('/health', ...): who gets a request the limiter lets through
router(path) == IF path[1] = "api" THEN path[2] ELSE "app"

\* the store's increment: the hit is counted in the open window, or opens one
increment(st) ==
    IF st.phase = "closed"
    THEN [phase |-> "early", totalHits |-> 1, windows |-> st.windows + 1]
    ELSE [st EXCEPT !.totalHits = @ + 1]

\* a limit that lets one request more through
exceedsByTwo(totalHits) == totalHits > max + 1

\* the limiter refuses the request when the client's hits exceed max
exceeds(totalHits) == totalHits > max

\* message: the body of the limiter's 429 response
tooManyRequests ==
    Response(429, <<"Too many requests from this IP, please try again later.">>)

\* app.get('/health')
health ==
    json([status |-> "OK", timestamp |-> "now", message |-> <<"Backend server is running">>])

\* the client sends a request: the limiter, when the path is under /api/,
\* counts it and answers 429 or lets it through to the router
Request ==
    /\ \E path \in Paths :
         IF limited(path)
         THEN /\ IF store.phase = "closed" THEN store.windows < MaxWindows
                 ELSE store.totalHits < max + MaxOver
              /\ store' = increment(store)
              /\ IF exceeds(store'.totalHits)
                 THEN /\ apiResp' = [path |-> path, router |-> "none", resp |-> tooManyRequests]
                      /\ UNCHANGED handled
                 ELSE /\ apiResp' = [path |-> path, router |-> router(path), resp |-> NoResponse]
                      /\ handled' = [handled EXCEPT ![store'.phase] = @ + 1]
         ELSE /\ apiResp' = [path |-> path, router |-> router(path), resp |-> health]
              /\ UNCHANGED <<store, handled>>
    /\ UNCHANGED <<ragVars, chatVars, uiVars>>

\* windowMs: time passes from the early half of the window to its late half,
\* and from the late half to the end of the window, when the store drops the
\* client's count
Tick ==
    /\ \/ /\ store.phase = "early"
          /\ store' = [store EXCEPT !.phase = "late"]
          /\ handled' = [handled EXCEPT !.previous = 0]
       \/ /\ store.phase = "late"
          /\ store' = [store EXCEPT !.phase = "closed", !.totalHits = 0]
          /\ handled' = [previous |-> handled.late, early |-> 0, late |-> 0]
    /\ UNCHANGED <<apiResp, ragVars, chatVars, uiVars>>

NextLimiter ==
    \/ Request
    \/ Tick

\* The limiter does not use the RAG service: its behaviours are explored
\* from the one initial state with a vector store and an empty index.
InitLimiter == Init /\ vectorStore /\ index = <<>>

SpecLimiter == InitLimiter /\ [][NextLimiter]_vars

----------------------------------------------------------------------------

(* components/ChatInterface.jsx *)

\* renderMessage, one source of an assistant message: the first 200
\* characters of its content followed by "...", and metadata.source when the
\* metadata has one
renderSource(source) ==
    [p |-> substring(source.content, previewLength) \o <<"...">>,
     small |-> {pair[2] : pair \in {q \in source.metadata : q[1] = "source"}}]

\* sends the chat accepts in one behaviour
MaxSends == 2

\* what the user types into the input: nothing, a blank, a letter, a letter
\* and a blank
InputTexts == {<<>>, <<" ">>, <<"a">>, <<"a", " ">>}

\* what chat(message) resolves with: the body of the server's answer
ChatResults ==
    {[response |-> <<"reply">>, sources |-> srcs, sessionId |-> Undefined] :
        srcs \in {<<>>, <<[content |-> <<"a">>, metadata |-> {}]>>}}

\* the messages of the chat; id and timestamp, which are read from the
\* clock, are left out
userMessage(text) == [content |-> text, type |-> "user"]

assistantMessage(response) ==
    [content |-> response.response, type |-> "assistant", sources |-> response.sources]

errorMessage ==
    [content |-> <<"Sorry, I encountered an error. Please try again.">>,
     type |-> "assistant"]

\* a guard that lets a blank input through
returnsEarlyWhenLoading == isLoading

\* if (!inputMessage.trim() || isLoading) return
returnsEarly == trim(inputMessage) = <<>> \/ isLoading

\* onChange of the textarea, which is disabled while isLoading
SetInputMessage ==
    /\ ~isLoading
    /\ \E text \in InputTexts : inputMessage' = text
    /\ UNCHANGED <<messages, isLoading, pending>>
    /\ UNCHANGED <<ragVars, chatVars, limiterVars, uploadUiVars>>

\* handleSendMessage up to its await: pending holds the texts of the calls of
\* chat that have not settled
HandleSendMessage ==
    /\ Len(messages) < 2 * MaxSends
    /\ IF returnsEarly
       THEN UNCHANGED chatUiVars
       ELSE /\ messages' = Append(messages, userMessage(inputMessage))
            /\ inputMessage' = <<>>
            /\ isLoading' = TRUE
            /\ pending' = Append(pending, inputMessage)
    /\ UNCHANGED <<ragVars, chatVars, limiterVars, uploadUiVars>>

\* the calls left when the i-th has settled
settled(i) == [j \in 1..(Len(pending) - 1) |-> IF j < i THEN pending[j] ELSE pending[j + 1]]

\* await chat(inputMessage) resolves: the rest of the try block and finally
ChatResolves ==
    /\ \E i \in 1..Len(pending), response \in ChatResults :
         /\ messages' = Append(messages, assistantMessage(response))
         /\ pending' = settled(i)
    /\ isLoading' = FALSE
    /\ UNCHANGED inputMessage
    /\ UNCHANGED <<ragVars, chatVars, limiterVars, uploadUiVars>>

\* await chat(inputMessage) rejects: the catch block and finally
ChatRejects ==
    /\ \E i \in 1..Len(pending) :
         /\ messages' = Append(messages, errorMessage)
         /\ pending' = settled(i)
    /\ isLoading' = FALSE
    /\ UNCHANGED inputMessage
    /\ UNCHANGED <<ragVars, chatVars, limiterVars, uploadUiVars>>

NextChatUi ==
    \/ SetInputMessage
    \/ HandleSendMessage
    \/ ChatResolves
    \/ ChatRejects

\* The component does not run the server: its behaviours are explored from
\* the one initial state with a vector store and an empty index.
InitChatUi == Init /\ vectorStore /\ index = <<>>

\* The HTTP request behind chat(message) ends with an answer or with an
\* error, and the event loop then runs the rest of handleSendMessage.
SpecChatUi == InitChatUi /\ [][NextChatUi]_vars /\ WF_vars(ChatResolves \/ ChatRejects)

----------------------------------------------------------------------------

(* components/DocumentUpload.jsx *)

\* uploads the form sends in one behaviour
MaxUploads == 3

\* response.chunks of an upload the server accepted
ChunkCounts == {1, 2}

\* error.message of an upload that failed
UploadErrors == {<<"Network Error">>, <<"Request failed with status code 500">>}

\* `Document uploaded successfully! Created ${response.chunks} chunks.`
successMessage(chunks) ==
    <<"Document uploaded successfully! Created ", ToString(chunks), " chunks.">>

\* onChange of the content textarea, which is never disabled
SetContent ==
    /\ \E text \in InputTexts : content' = text
    /\ UNCHANGED <<isUploading, uploadStatus, statusMessage, uploads, statusOf, timers>>
    /\ UNCHANGED <<ragVars, chatVars, limiterVars, chatUiVars>>

\* handleSubmit up to its await.  The form is submitted through its submit
\* button, which is disabled while isUploading or while the content is blank.
HandleSubmit ==
    /\ ~(isUploading \/ trim(content) = <<>>)
    /\ uploads < MaxUploads
    /\ IF trim(content) = <<>>
       THEN /\ uploadStatus' = "error"
            /\ statusMessage' = <<"Please enter document content">>
            /\ statusOf' = 0
            /\ UNCHANGED <<isUploading, uploads>>
       ELSE /\ isUploading' = TRUE
            /\ uploadStatus' = "idle"
            /\ statusOf' = 0
            /\ uploads' = uploads + 1
            /\ UNCHANGED statusMessage
    /\ UNCHANGED <<content, timers>>
    /\ UNCHANGED <<ragVars, chatVars, limiterVars, chatUiVars>>

\* await uploadDocument(...) resolves: the rest of the try block, which
\* starts the 5-second timer, and finally
UploadResolves ==
    /\ isUploading
    /\ \E chunks \in ChunkCounts : statusMessage' = successMessage(chunks)
    /\ uploadStatus' = "success"
    /\ statusOf' = uploads
    /\ content' = <<>>
    /\ timers' = Append(timers, uploads)
    /\ isUploading' = FALSE
    /\ UNCHANGED uploads
    /\ UNCHANGED <<ragVars, chatVars, limiterVars, chatUiVars>>

\* await uploadDocument(...) rejects: the catch block and finally
UploadRejects ==
    /\ isUploading
    /\ \E message \in UploadErrors : statusMessage' = message
    /\ uploadStatus' = "error"
    /\ statusOf' = uploads
    /\ isUploading' = FALSE
    /\ UNCHANGED <<content, uploads, timers>>
    /\ UNCHANGED <<ragVars, chatVars, limiterVars, chatUiVars>>

\* the callback of setTimeout(..., 5000): the timers all wait 5 seconds, so
\* they fire in the order they were started
TimerFires ==
    /\ timers # <<>>
    /\ uploadStatus' = "idle"
    /\ statusMessage' = <<>>
    /\ statusOf' = 0
    /\ timers' = Tail(timers)
    /\ UNCHANGED <<content, isUploading, uploads>>
    /\ UNCHANGED <<ragVars, chatVars, limiterVars, chatUiVars>>

NextUploadUi ==
    \/ SetContent
    \/ HandleSubmit
    \/ UploadResolves
    \/ UploadRejects
    \/ TimerFires

\* The component does not run the server: its behaviours are explored from
\* the one initial state with a vector store and an empty index.
InitUploadUi == Init /\ vectorStore /\ index = <<>>

SpecUploadUi == InitUploadUi /\ [][NextUploadUi]_vars

----------------------------------------------------------------------------

(* The claims *)

Sent(r) == r.pc = "done"

HasText(body, field) == field \in DOMAIN body /\ body[field] # <<>>

\* the rows of docs stand in the index, next to each other and in order
Stored(docs) ==
    \E off \in 0..(Len(index) - Len(docs)) :
        \A i \in 1..Len(docs) : index[off + i] = Row(docs[i])

\* C1: an upload is answered with success only when all its chunks are in
\* the index (chunks is their number), and an upload whose embedding or
\* indexing failed, or that met an uninitialized vector store, is not
\* answered with success.  The code answers success without storing anything
\* when vectorStore is null.
C1_SuccessMeansAllChunksIndexed ==
    \A s \in Slots :
        LET r == reqs[s] IN
        (r.route = "upload" /\ Sent(r) /\ HasText(r.body, "content")) =>
            /\ r.resp.status = 200 =>
                    /\ r.resp.body.success
                    /\ r.resp.body.chunks = Len(r.docs)
                    /\ Stored(r.docs)
            /\ (~vectorStore \/ r.failure # NoError) => r.resp.status # 200

\* C2: an upload whose content is missing or the empty string is answered
\* 400 at once, uploadDocument is not called and the index stays as it was.
C2_EmptyContentRejected ==
    [][\A s \in Slots :
          (/\ reqs'[s] # reqs[s]
           /\ reqs'[s].route = "upload"
           /\ ~HasText(reqs'[s].body, "content"))
          => /\ Sent(reqs'[s])
             /\ reqs'[s].resp.status = 400
             /\ reqs'[s].calls = <<>>
             /\ index' = index]_vars

C2_Witness ==
    \E s \in Slots :
        /\ reqs[s].route = "upload" /\ Sent(reqs[s])
        /\ reqs[s].body = [content |-> <<>>]
        /\ reqs[s].resp.status = 400

\* C3: an upload whose content holds nothing but blanks is rejected with a
\* validation error (400), like empty content.  The code answers it with
\* success and chunks = 0.
C3_WhitespaceOnlyRejected ==
    \A s \in Slots :
        LET r == reqs[s] IN
        (/\ r.route = "upload" /\ Sent(r)
         /\ HasText(r.body, "content") /\ trim(r.body.content) = <<>>)
        => r.resp.status = 400

\* C4: a chat without message and a query without query are answered 400,
\* and neither a similarity search nor a generation call is made for them.
C4_MissingQuestionRejected ==
    \A s \in Slots :
        LET r == reqs[s] IN
        (/\ r.route \in {"chat", "query"}
         /\ (IF r.route = "chat" THEN "message" ELSE "query") \notin DOMAIN r.body)
        => /\ Sent(r)
           /\ r.resp.status = 400
           /\ r.calls = <<>>

C4_Witness ==
    /\ \E s \in Slots :
          reqs[s].route = "chat" /\ reqs[s].body = [sessionId |-> <<"s1">>]
          /\ reqs[s].resp.status = 400
    /\ index # <<>>

\* C5: getStats never rejects: GET /rag/stats is always answered 200, and
\* when the count query failed the answer has vectorStoreStatus "error",
\* totalDocuments 0 and the message of the failure.
C5_StatsNeverThrows ==
    \A s \in Slots :
        LET r == reqs[s] IN
        (r.route = "stats" /\ Sent(r)) =>
            /\ r.resp.status = 200
            /\ r.failure # NoError =>
                    /\ r.resp.body.vectorStoreStatus = "error"
                    /\ r.resp.body.totalDocuments = 0
                    /\ "error" \in DOMAIN r.resp.body
                    /\ r.resp.body.error = r.failure.message

C5_Witness ==
    \E s \in Slots :
        /\ reqs[s].route = "stats" /\ Sent(reqs[s])
        /\ reqs[s].failure \in CountFailures
        /\ reqs[s].resp.body.vectorStoreStatus = "error"
        /\ index # <<>>

\* the request failed while searchDocuments was running
FailedInSearch(r) ==
    /\ r.route \in {"chat", "query"} /\ Sent(r)
    /\ r.failure # NoError
    /\ "generatePersonaResponse" \notin {r.calls[i] : i \in 1..Len(r.calls)}

\* the operation context chat and directQuery put in front of a message
Context(route) ==
    IF route = "chat" THEN <<"Failed to generate response: ">>
    ELSE <<"Failed to process direct query: ">>

\* C6 as claimed: when the query embedding fails with HTTP 429, chat rejects
\* with an error of the kind QuotaExceededError, and makes no generation call.
C6_QuotaErrorKind ==
    \A s \in Slots :
        LET r == reqs[s] IN
        (/\ r.route = "chat" /\ Sent(r)
         /\ r.failure \in EmbeddingFailures /\ IsQuotaFailure(r.failure))
        => /\ r.thrown.name = "QuotaExceededError"
           /\ "completions.create" \notin {r.calls[i] : i \in 1..Len(r.calls)}

\* C6 as amended: when the query embedding fails with HTTP 429, chat rejects
\* with a plain Error whose message is the operation context followed by the
\* fixed quota text, the route answers 500 with that message, and no
\* generation call is made.
C6_QuotaMessage ==
    \A s \in Slots :
        LET r == reqs[s] IN
        (/\ r.route = "chat" /\ Sent(r)
         /\ r.failure \in EmbeddingFailures /\ IsQuotaFailure(r.failure))
        => /\ r.thrown = [name |-> "Error", message |-> Context("chat") \o QuotaMessage]
           /\ r.resp = Response(500, [error |-> r.thrown.message])
           /\ "generatePersonaResponse" \notin {r.calls[i] : i \in 1..Len(r.calls)}
           /\ "completions.create" \notin {r.calls[i] : i \in 1..Len(r.calls)}

C6_Witness ==
    \E s \in Slots :
        /\ reqs[s].route = "chat" /\ Sent(reqs[s])
        /\ reqs[s].failure.name = "InsufficientQuotaError"
        /\ reqs[s].calls = <<"chat", "searchDocuments", "embedQuery">>
        /\ reqs[s].resp.status = 500

\* C7 as claimed: the error chat or directQuery rejects with has the kind of
\* the error the lower layer raised.
C7_KindUnchanged ==
    \A s \in Slots :
        LET r == reqs[s] IN
        (r.route \in {"chat", "query"} /\ Sent(r) /\ r.failure # NoError)
        => r.thrown.name = r.failure.name

\* C7 as amended: an error of a lower layer is never swallowed, but its kind
\* is lost: chat and directQuery reject with a plain Error, answered 500,
\* whose message is the operation context followed by the fixed quota text
\* when the original message holds "429" or "InsufficientQuotaError", and by
\* the failing stage's prefix and the original message otherwise.
C7_WrappedNotSwallowed ==
    \A s \in Slots :
        LET r == reqs[s]
            quota == \E i \in 1..Len(r.failure.message) :
                        r.failure.message[i] \in {"429", "InsufficientQuotaError"}
            stage == IF FailedInSearch(r) THEN <<"Failed to search documents: ">>
                     ELSE <<"Failed to generate response: ">>
        IN
        (r.route \in {"chat", "query"} /\ Sent(r) /\ r.failure # NoError)
        => /\ r.thrown.name = "Error"
           /\ r.thrown.message =
                Context(r.route) \o (IF quota THEN QuotaMessage ELSE stage \o r.failure.message)
           /\ r.resp = Response(500, [error |-> r.thrown.message])

C7_Witness ==
    \E s \in Slots :
        /\ reqs[s].route = "chat" /\ Sent(reqs[s])
        /\ reqs[s].failure.name = "APIConnectionError"
        /\ reqs[s].thrown.name = "Error"
        /\ reqs[s].calls[Len(reqs[s].calls)] = "completions.create"

\* C8: every error response has the fields error, message and timestamp, and
\* a validation error is answered 400, any other error 5xx.  The routes
\* answer with {error} alone, and a body that cannot be parsed is answered 500.
C8_ErrorShape ==
    \A s \in Slots :
        LET r == reqs[s] IN
        (Sent(r) /\ r.resp.status >= 400) =>
            /\ DOMAIN r.resp.body = {"error", "message", "timestamp"}
            /\ r.resp.status \in {400, 404} \/ r.resp.status >= 500
            /\ (r.failure = NoError /\ r.route \in {"upload", "chat", "query", "malformed"})
                    => r.resp.status = 400
            /\ r.failure # NoError => r.resp.status >= 500

\* C9: a successful chat returns at most 5 sources and a successful direct
\* query at most 3, and never more than the index held when it was searched.
C9_SourcesBounded ==
    \A s \in Slots :
        LET r == reqs[s] IN
        (r.route \in {"chat", "query"} /\ Sent(r) /\ r.resp.status = 200) =>
            /\ Len(r.resp.body.sources) <= (IF r.route = "chat" THEN 5 ELSE 3)
            /\ Len(r.resp.body.sources) <= r.seen

C9_Witness ==
    \E s \in Slots :
        /\ reqs[s].route = "query" /\ Sent(reqs[s]) /\ reqs[s].resp.status = 200
        /\ Len(reqs[s].resp.body.sources) = 3
        /\ reqs[s].seen > 5

\* C10: a search of a reachable, empty index succeeds with no result; a
\* search without a vector store, or one whose match_documents call failed,
\* fails and never passes for an empty result; and a search fails only when
\* something did fail.
C10_EmptyIsNotUnavailable ==
    \A s \in Slots :
        LET r == reqs[s]
            searched == "generatePersonaResponse" \in {r.calls[i] : i \in 1..Len(r.calls)}
        IN
        (r.route \in {"chat", "query"} /\ r.calls # <<>>) =>
            /\ (searched /\ r.seen = 0) => r.results = <<>>
            /\ searched => (vectorStore /\ r.failure \notin SearchFailures)
            /\ (~vectorStore \/ r.failure \in SearchFailures)
                    => (Sent(r) /\ r.resp.status = 500 /\ r.results = <<>>)
            /\ (Sent(r) /\ ~searched) => r.failure # NoError

C10_Witness ==
    \E s \in Slots :
        /\ reqs[s].route = "chat" /\ reqs[s].pc = "generate"
        /\ reqs[s].seen = 0 /\ reqs[s].results = <<>>
        /\ index = <<>>

----------------------------------------------------------------------------
(* Retrieval: ranking, context and sources *)

\* the request's similarity search has delivered its results
Searched(r) ==
    /\ r.route \in {"chat", "query"}
    /\ "generatePersonaResponse" \in {r.calls[i] : i \in 1..Len(r.calls)}

\* the question of a chat or query request
question(r) == get(r.body, questionField(r.route))

\* how often the document d occurs in docs
Occurrences(d, docs) == Cardinality({i \in 1..Len(docs) : docs[i] = d})

\* how many of the first n rows of the index hold the document d
Held(d, n) == Cardinality({p \in 1..n : Document(index[p]) = d})

\* the results of r are the limit most similar of the rows the index held
\* when r searched it (all of them when there are fewer), most similar first
RankedBySimilarity(r) ==
    LET res == r.results
        n   == r.seen
        k   == limitOf(r.route)
        sim(d) == similarity(question(r), d.pageContent)
    IN  /\ Len(res) = IF k < n THEN k ELSE n
        /\ \A i \in 1..(Len(res) - 1) : sim(res[i]) >= sim(res[i + 1])
        /\ \A i \in 1..Len(res) : Occurrences(res[i], res) <= Held(res[i], n)
        /\ \A p \in 1..n :
              (res # <<>> /\ sim(Document(index[p])) > sim(res[Len(res)]))
                  => Occurrences(Document(index[p]), res) = Held(Document(index[p]), n)

\* C11 as claimed: a search returns the k most similar entries of the whole
\* index, most similar first, and entries of equal similarity in the order
\* in which they were stored.
C11_TiesInInsertionOrder ==
    \A s \in Slots :
        Searched(reqs[s]) =>
            LET r == reqs[s]
                found == match_documents(question(r), limitOf(r.route), 1..r.seen, TRUE)
            IN  r.results = [i \in 1..Len(found) |-> Document(index[found[i]])]

\* C11 (amended): a search returns the k entries of the whole index with the
\* highest similarity to the query (all entries when the index holds fewer
\* than k), ordered by descending similarity; every entry more similar than
\* the last one returned is among the results.  The order among entries of
\* equal similarity is the database's choice.
C11_TopKDescending ==
    \A s \in Slots : Searched(reqs[s]) => RankedBySimilarity(reqs[s])

\* a search over more rows than the limit has returned three entries of
\* three different similarities, the most similar first
C11_Witness ==
    \E s \in Slots :
        LET r == reqs[s]
            sim(i) == similarity(question(r), r.results[i].pageContent)
        IN  /\ Searched(r)
            /\ r.seen > limitOf(r.route)
            /\ Len(r.results) >= 3
            /\ sim(1) > sim(2) /\ sim(2) > sim(3)

\* the texts from the i-th on, in order, with a blank line between neighbours
RECURSIVE BlankLineJoined(_, _)
BlankLineJoined(texts, i) ==
    IF i > Len(texts) THEN <<>>
    ELSE IF i = Len(texts) THEN texts[i]
    ELSE texts[i] \o <<"\n\n">> \o BlankLineJoined(texts, i + 1)

\* C12: in chat and directQuery the generation context is the texts of the
\* retrieved chunks joined by a blank line, in the order the retriever
\* returned them; the sources of the answer are as many as the retrieved
\* chunks, in the same order, each with that chunk's text and metadata.
C12_ContextAndSourcesInRetrievalOrder ==
    \A s \in Slots :
        LET r == reqs[s] IN
        Searched(r) =>
            /\ r.context = BlankLineJoined([i \in 1..Len(r.results) |-> r.results[i].pageContent], 1)
            /\ (Sent(r) /\ r.resp.status = 200) =>
                  /\ Len(r.resp.body.sources) = Len(r.results)
                  /\ \A i \in 1..Len(r.results) :
                        /\ r.resp.body.sources[i].content = r.results[i].pageContent
                        /\ r.resp.body.sources[i].metadata = r.results[i].metadata

\* an answer built on at least two retrieved chunks of different texts
C12_Witness ==
    \E s \in Slots :
        LET r == reqs[s] IN
        /\ Searched(r) /\ Sent(r) /\ r.resp.status = 200
        /\ Len(r.results) >= 2
        /\ r.results[1].pageContent # r.results[2].pageContent
        /\ r.context # <<>>

----------------------------------------------------------------------------
(* Upstream calls of one request *)

\* how often the request has made the call
Count(r, call) == Cardinality({i \in 1..Len(r.calls) : r.calls[i] = call})

\* C13: one chat or directQuery request performs one similarity search, with
\* its own query embedding, and at most one generation call; a request that
\* was answered with success made exactly one of each; once a stage has
\* failed the request is answered and has made no call after the failed one.
C13_NoRetries ==
    \A s \in Slots :
        LET r == reqs[s] IN
        r.route \in {"chat", "query"} =>
            /\ Count(r, "searchDocuments") <= 1
            /\ Count(r, "embedQuery") <= 1
            /\ Count(r, "match_documents") <= 1
            /\ Count(r, "generatePersonaResponse") <= 1
            /\ Count(r, "completions.create") <= 1
            /\ Searched(r) => Count(r, "embedQuery") = 1 /\ Count(r, "match_documents") = 1
            /\ (Sent(r) /\ r.resp.status = 200) =>
                  Searched(r) /\ Count(r, "completions.create") = 1
            /\ r.failure # NoError =>
                  /\ Sent(r) /\ r.resp.status = 500
                  /\ r.calls[Len(r.calls)] \in
                        {"searchDocuments", "embedQuery", "match_documents", "completions.create"}
                  /\ r.calls[Len(r.calls)] # "completions.create" =>
                        /\ Count(r, "generatePersonaResponse") = 0
                        /\ Count(r, "completions.create") = 0

\* a request whose search failed in match_documents, after its one query
\* embedding, and was answered without a generation call
C13_Witness ==
    \E s \in Slots :
        LET r == reqs[s] IN
        /\ r.route \in {"chat", "query"} /\ Sent(r)
        /\ r.failure \in SearchFailures
        /\ r.calls[Len(r.calls)] = "match_documents"
        /\ Count(r, "embedQuery") = 1
        /\ Count(r, "completions.create") = 0

----------------------------------------------------------------------------
(* The index under uploads *)

\* the step answers the upload in slot s with success
UploadSucceeds(s) ==
    /\ reqs'[s].route = "upload" /\ Sent(reqs'[s]) /\ reqs'[s].resp.status = 200
    /\ \/ reqs[s].pc = "addDocuments"
       \/ served' # served /\ Free(s)

\* the rows the index held are still its first rows, unchanged
IndexKept == Len(index') >= Len(index) /\ SubSeq(index', 1, Len(index)) = index

\* C14: the index is append-only under upload: no step changes or removes an
\* entry, and each upload answered with success (a repeated one too) has
\* made the index grow by exactly the chunks value of its answer.
C14_AppendOnlyGrowsByChunks ==
    [][/\ IndexKept
       /\ \A s \in Slots :
             UploadSucceeds(s) => Len(index') = Len(index) + reqs'[s].resp.body.chunks]_vars

\* the rows the step adds to the index
NewRows == (Len(index) + 1)..Len(index')

\* the upload in slot s is waiting for addDocuments, and the row is the i-th
\* chunk the splitter produces for its content, with the given metadata
ChunkOfUpload(s, row, metadata) ==
    /\ reqs[s].route = "upload" /\ reqs[s].pc = "addDocuments"
    /\ \E i \in 1..Len(splitText(reqs[s].body.content)) :
          /\ row.content = splitText(reqs[s].body.content)[i]
          /\ row.metadata = metadata

\* C15 as claimed: every entry an upload adds to the index has the text of
\* one chunk of the uploaded document and exactly that document's metadata.
C15_EntryHasDocumentMetadata ==
    [][\A p \in NewRows :
          \E s \in Slots : ChunkOfUpload(s, index'[p], metadataOf(reqs[s].body))]_vars

\* C15 (amended): every entry an upload adds to the index has as its text
\* exactly the text of one chunk the splitter produced for the uploaded
\* document (the chunk that was embedded), and as its metadata that
\* document's metadata together with the loc the splitter adds to a chunk.
C15_EntryIsChunkOfUpload ==
    [][\A p \in NewRows :
          \E s \in Slots :
              ChunkOfUpload(s, index'[p], metadataOf(reqs[s].body) \cup {<<"loc", "lines 1-1">>})]_vars

\* an upload that carries metadata has stored its chunks
C15_Witness ==
    \E s \in Slots :
        LET r == reqs[s] IN
        /\ r.route = "upload" /\ Sent(r) /\ r.resp.status = 200
        /\ "metadata" \in DOMAIN r.body
        /\ r.docs # <<>> /\ vectorStore
        /\ Len(index) = r.seen + Len(r.docs)
        /\ index[Len(index)].content = r.docs[Len(r.docs)].pageContent

----------------------------------------------------------------------------
(* Uploads and searches of different requests in flight together *)

\* the step completes the addDocuments call the upload in slot s waits for
AddDocumentsSucceeds(s) ==
    /\ reqs[s].route = "upload" /\ reqs[s].pc = "addDocuments"
    /\ Sent(reqs'[s]) /\ reqs'[s].resp.status = 200

\* the document is a whole entry that stands among the first n rows
WholeEntry(d, n) ==
    /\ DOMAIN d = {"pageContent", "metadata"}
    /\ \E p \in 1..n : n <= Len(index') /\ d = Document(index'[p])

\* C16: however the uploads and searches of different requests interleave,
\* every entry a search returns is a whole entry some upload (or the seeding)
\* has stored, and no entry is lost: a completed addDocuments leaves every
\* row that was there in place and puts all its chunks behind them, so after
\* two uploads in flight together have both succeeded the index holds the
\* chunks of both.
C16_NoTornReadNoLostEntry ==
    [][/\ IndexKept
       /\ \A s \in Slots :
             AddDocumentsSucceeds(s) =>
                 index' = index \o [i \in 1..Len(reqs[s].docs) |-> Row(reqs[s].docs[i])]
       /\ \A s \in Slots :
             Searched(reqs'[s]) =>
                 \A i \in 1..Len(reqs'[s].results) :
                     WholeEntry(reqs'[s].results[i], reqs'[s].seen)]_vars

\* the second of two uploads that were in flight together has stored its
\* chunks behind the chunks the first one stored
C16_Witness ==
    \E s \in Slots \ {1} :
        LET r == reqs[s] IN
        /\ r.route = "upload" /\ Sent(r) /\ r.resp.status = 200
        /\ r.docs # <<>> /\ r.seen > 0
        /\ <<"loc", "lines 1-1">> \in index[r.seen].metadata
        /\ Len(index) = r.seen + Len(r.docs)
        /\ \A i \in 1..Len(r.docs) : index[r.seen + i] = Row(r.docs[i])

----------------------------------------------------------------------------
(* Documents shorter than the chunk size *)

\* the upload of a non-empty document shorter than chunkSize was answered
\* with success
ShortUploadAnswered(r) ==
    /\ r.route = "upload" /\ Sent(r) /\ r.resp.status = 200
    /\ HasText(r.body, "content")
    /\ length(r.body.content) < chunkSize

\* C17 as claimed: the upload of a non-empty document shorter than the chunk
\* size produces exactly one chunk, whose text is the whole document, and
\* reports chunks = 1.
C17_OneChunkWholeDocument ==
    \A s \in Slots :
        LET r == reqs[s] IN
        ShortUploadAnswered(r) =>
            /\ Len(r.docs) = 1
            /\ r.docs[1].pageContent = r.body.content
            /\ r.resp.body.chunks = 1

\* C17 (amended): the upload of a document shorter than the chunk size that
\* holds a character other than white space produces exactly one chunk,
\* whose text is the document without its leading and trailing white space,
\* and reports chunks = 1.
C17_OneChunkTrimmedDocument ==
    \A s \in Slots :
        LET r == reqs[s] IN
        (ShortUploadAnswered(r) /\ trim(r.body.content) # <<>>) =>
            /\ Len(r.docs) = 1
            /\ r.docs[1].pageContent = trim(r.body.content)
            /\ r.resp.body.chunks = 1

\* a short document that begins with a blank was uploaded as one chunk
C17_Witness ==
    \E s \in Slots :
        LET r == reqs[s] IN
        /\ ShortUploadAnswered(r)
        /\ r.body.content[1] = " " /\ trim(r.body.content) # <<>>
        /\ Len(r.docs) = 1 /\ r.resp.body.chunks = 1

----------------------------------------------------------------------------
(* Chat sessions *)

\* the step is the chat router handling a request of the route
Handled(route) == chatResp'.route = route /\ chatVars' # chatVars

\* C19: every POST /chat/start creates a new session, whose id differs from
\* every id issued before (so from the id of every session created before,
\* ended ones included), with an empty message sequence, and leaves every
\* existing session as it was.
C19_StartCreatesFreshEmptySession ==
    [][Handled("start") =>
          LET resp == chatResp'.resp
              id   == resp.body.sessionId
              new  == chatSessions'[Len(chatSessions')]
          IN  /\ resp.status = 200
              /\ id \notin issued
              /\ \A i \in 1..Len(chatSessions) : chatSessions[i].key # id
              /\ Len(chatSessions') = Len(chatSessions) + 1
              /\ SubSeq(chatSessions', 1, Len(chatSessions)) = chatSessions
              /\ new.key = id /\ new.value.id = id
              /\ new.value.messages = <<>>
              /\ resp.body.session = new.value]_vars

\* a second session was started after the first one had received a message
C19_Witness ==
    /\ chatResp.route = "start" /\ chatResp.resp.status = 200
    /\ Len(chatSessions) = 2
    /\ chatSessions[1].value.messages # <<>>
    /\ chatSessions[2].value.messages = <<>>
    /\ chatSessions[1].key # chatSessions[2].key

\* C20: each POST /chat/message answered with success appends exactly one
\* message, with the content sent, at the end of the sequence of the session
\* it names, so the messages stand in the order in which the requests were
\* handled; the earlier messages of that session and all other sessions stay
\* as they were, and a POST /chat/message that is refused changes nothing.
C20_MessageAppendedAtEnd ==
    [][Handled("message") =>
          IF chatResp'.resp.status = 200
          THEN LET sent == chatResp'.resp.body.messageObj IN
               /\ sent.content = chatResp'.body.message
               /\ Len(chatSessions') = Len(chatSessions)
               /\ \A i \in 1..Len(chatSessions) :
                     IF chatSessions[i].key = chatResp'.body.sessionId
                     THEN chatSessions'[i] =
                            [chatSessions[i] EXCEPT !.value.messages = Append(@, sent)]
                     ELSE chatSessions'[i] = chatSessions[i]
          ELSE chatSessions' = chatSessions]_vars

\* a session holds two messages of different contents in the order sent
C20_Witness ==
    /\ chatResp.route = "message" /\ chatResp.resp.status = 200
    /\ \E i \in 1..Len(chatSessions) :
          LET kept == chatSessions[i].value.messages IN
          /\ Len(kept) = 2
          /\ kept[1].content # kept[2].content
          /\ kept[2] = chatResp.resp.body.messageObj

----------------------------------------------------------------------------
(* Rate limiting *)

\* a request under /api/ beyond the limit is answered 429 by the limiter and
\* reaches no router; a request the limiter answered was under /api/
RejectedBeforeRouters ==
    /\ (apiResp.path # "none" /\ apiResp.path[1] = "api" /\ store.totalHits > max) =>
          apiResp.resp.status = 429 /\ apiResp.router = "none"
    /\ apiResp.resp.status = 429 =>
          apiResp.path[1] = "api" /\ apiResp.router = "none"

\* GET /health is answered by the app whatever the client's count is
HealthNotLimited ==
    (apiResp.path # "none" /\ apiResp.path = <<"health">>) =>
        apiResp.resp.status = 200 /\ apiResp.router = "app"

\* C18 as claimed: within any 15 minutes at most 100 requests of one client
\* IP to routes under /api/ are handled; further requests are rejected
\* without reaching the routers; /health is not limited.
C18_AtMostMaxInAny15Minutes ==
    /\ handled.early + handled.late <= max
    /\ handled.previous + handled.early <= max
    /\ RejectedBeforeRouters
    /\ HealthNotLimited

\* C18 (amended): within each of the limiter's fixed 15-minute windows at
\* most 100 requests of one client IP to routes under /api/ are handled (the
\* late requests of one window and the early ones of the next can be more
\* than 100 within 15 minutes); further requests in that window
\* are rejected with 429 without reaching the RAG, chat or health routers;
\* the top-level /health endpoint is not limited.
C18_AtMostMaxPerLimiterWindow ==
    /\ handled.early + handled.late <= max
    /\ RejectedBeforeRouters
    /\ HealthNotLimited

\* the client's 101st request of a window, after 100 handled ones, was
\* rejected
C18_Witness ==
    /\ store.totalHits = max + 1
    /\ handled.early + handled.late = max
    /\ apiResp.path # "none" /\ apiResp.path[1] = "api"
    /\ apiResp.resp.status = 429 /\ apiResp.router = "none"

----------------------------------------------------------------------------
(* Statistics and health *)

\* the request of the route has been answered after its count query
Counted(r, route) == r.route = route /\ Sent(r) /\ Count(r, "count") = 1

\* C21: getStats reports vectorStoreStatus as one of active, inactive and
\* error: active when the count query succeeds and the vector store is
\* initialized, inactive when it succeeds and the vector store is not
\* initialized, error when the count query fails; in the first two cases
\* totalDocuments is the number of rows the index held.
C21_StatsStatus ==
    \A s \in Slots :
        LET r == reqs[s] IN
        Counted(r, "stats") =>
            /\ r.resp.status = 200
            /\ r.resp.body.vectorStoreStatus \in {"active", "inactive", "error"}
            /\ IF r.failure = NoError
               THEN /\ r.resp.body.vectorStoreStatus = "active" <=> vectorStore
                    /\ r.resp.body.vectorStoreStatus = "inactive" <=> ~vectorStore
                    /\ r.resp.body.totalDocuments = r.seen
                    /\ r.seen <= Len(index)
               ELSE r.resp.body.vectorStoreStatus = "error"

\* the statistics of a service without vector store over a seeded index
C21_Witness ==
    \E s \in Slots :
        LET r == reqs[s] IN
        /\ Counted(r, "stats") /\ r.failure = NoError
        /\ ~vectorStore
        /\ r.resp.body.vectorStoreStatus = "inactive"
        /\ r.resp.body.totalDocuments = Len(index) /\ Len(index) > 0

----------------------------------------------------------------------------
(* The order of retrieval, generation and answer *)

\* the place of the call in the request's calls, 0 when it was not made
Place(r, call) ==
    IF Count(r, call) = 0 THEN 0
    ELSE CHOOSE i \in 1..Len(r.calls) : r.calls[i] = call

\* C22: in chat and directQuery generation starts only after the retrieval
\* has succeeded, and the answer is sent only after generation has
\* succeeded: a request whose retrieval failed has not called
\* generatePersonaResponse, and a request whose generation failed is
\* answered with the error alone, without response or sources.
C22_RetrievalThenGenerationThenAnswer ==
    \A s \in Slots :
        LET r == reqs[s] IN
        r.route \in {"chat", "query"} =>
            /\ Count(r, "generatePersonaResponse") > 0 =>
                  /\ Place(r, "match_documents") > 0
                  /\ Place(r, "match_documents") < Place(r, "generatePersonaResponse")
                  /\ r.failure # NoError => r.calls[Len(r.calls)] = "completions.create"
            /\ Count(r, "completions.create") > 0 =>
                  Place(r, "generatePersonaResponse") < Place(r, "completions.create")
            /\ (Sent(r) /\ Count(r, "match_documents") = 0) =>
                  Count(r, "generatePersonaResponse") = 0 /\ r.resp.status # 200
            /\ (Sent(r) /\ r.resp.status = 200) =>
                  /\ r.failure = NoError
                  /\ r.calls[Len(r.calls)] = "completions.create"
                  /\ {"response", "sources"} \subseteq DOMAIN r.resp.body
            /\ (Sent(r) /\ r.failure # NoError) =>
                  /\ r.resp.status = 500
                  /\ DOMAIN r.resp.body = {"error"}

\* a request whose retrieval succeeded and whose generation failed was
\* answered with the error alone
C22_Witness ==
    \E s \in Slots :
        LET r == reqs[s] IN
        /\ r.route \in {"chat", "query"} /\ Sent(r)
        /\ r.results # <<>>
        /\ r.failure \in GenerationFailures
        /\ r.calls[Len(r.calls)] = "completions.create"
        /\ DOMAIN r.resp.body = {"error"}

----------------------------------------------------------------------------
(* The text of the sources *)

\* the request was answered with a response and its sources
Answered(r) == r.route \in {"chat", "query"} /\ Sent(r) /\ r.resp.status = 200

\* C23 as claimed: the sources chat and directQuery return carry a truncated
\* preview of each retrieved entry's text, not the full chunk text.
C23_SourcesCarryPreview ==
    \A s \in Slots :
        LET r == reqs[s] IN
        Answered(r) =>
            \A i \in 1..Len(r.results) :
                length(r.results[i].pageContent) > previewLength =>
                    /\ r.resp.body.sources[i].content # r.results[i].pageContent
                    /\ r.resp.body.sources[i].content =
                          substring(r.results[i].pageContent, previewLength) \o <<"...">>

\* C23 (amended): the sources chat and directQuery return carry the full
\* text of each retrieved entry, as it stands in the index, together with
\* its metadata; the truncated preview (the first 200 characters followed by
\* "...") is what the chat UI shows of a source.
C23_SourcesCarryFullText ==
    \A s \in Slots :
        LET r == reqs[s] IN
        Answered(r) =>
            \A i \in 1..Len(r.resp.body.sources) :
                LET source == r.resp.body.sources[i] IN
                /\ \E p \in 1..r.seen :
                      p <= Len(index) /\ index[p].content = source.content
                                      /\ index[p].metadata = source.metadata
                /\ renderSource(source).p =
                      substring(r.results[i].pageContent, previewLength) \o <<"...">>
                /\ length(source.content) > previewLength =>
                      renderSource(source).p # source.content

\* an answer with a source whose text is longer than the preview
C23_Witness ==
    \E s \in Slots :
        LET r == reqs[s] IN
        /\ Answered(r) /\ r.results # <<>>
        /\ length(r.resp.body.sources[1].content) > previewLength
        /\ r.resp.body.sources[1].content = r.results[1].pageContent

----------------------------------------------------------------------------
(* Quota failures *)

\* the answer carries the quota-exceeded text
ReportedAsQuota(r) ==
    \E i \in 1..Len(r.resp.body.error) : r.resp.body.error[i] = QuotaMessage[1]

\* C24: a failure of an upstream call in searchDocuments or
\* generatePersonaResponse is reported with the quota-exceeded text exactly
\* when it is a rate or quota failure of the provider: an index error whose
\* message happens to contain 429 is not reported as quota exceeded, and a
\* quota failure is not reported as a generic failure.
C24_QuotaReportedIffQuotaFailure ==
    \A s \in Slots :
        LET r == reqs[s] IN
        (/\ r.route \in {"chat", "query"} /\ Sent(r)
         /\ r.failure \in (EmbeddingFailures \cup SearchFailures \cup GenerationFailures))
        => (ReportedAsQuota(r) <=> IsQuotaFailure(r.failure))

----------------------------------------------------------------------------
(* The life of a chat session *)

\* the ids a request can name that the session map does not hold: ended
\* sessions, ids of messages, and the id that was never issued
Absent(id) == id \in issued \cup {UnknownId} /\ ~mapHas(chatSessions, id)

\* the step handles a GET, a message post or a DELETE that names the id
Names(route, id) ==
    /\ Handled(route)
    /\ "sessionId" \in DOMAIN chatResp'.body /\ chatResp'.body.sessionId = id

\* a session that is not in the map is never put into it, a DELETE answered
\* with success has removed its session, and a request answered with 400 or
\* 404 leaves the map as it was
LifecycleFrame ==
    /\ \A id \in issued \cup {UnknownId} :
          Absent(id) => ~mapHas(chatSessions', id)
    /\ (Handled("delete") /\ chatResp'.resp.status = 200) =>
          /\ mapHas(chatSessions, chatResp'.body.sessionId)
          /\ ~mapHas(chatSessions', chatResp'.body.sessionId)
    /\ (chatVars' # chatVars /\ chatResp'.resp.status \in {400, 404}) =>
          chatSessions' = chatSessions

\* C25 as claimed: once DELETE has succeeded for an id, every later GET,
\* message post and DELETE for that id answers 404; so does a message post
\* or DELETE for an id that was never created, and no session is created; a
\* request answered with 400 or 404 leaves the session map unchanged.
C25_AbsentSessionAnswers404 ==
    [][/\ LifecycleFrame
       /\ \A id \in issued \cup {UnknownId} :
             \A route \in {"session", "message", "delete"} :
                 (Absent(id) /\ Names(route, id)) => chatResp'.resp.status = 404]_vars

\* C25 (amended): once DELETE has succeeded for an id, every later GET,
\* DELETE and message post that carries a message text for that id answers
\* 404 (a message post without message text answers 400, whatever the id);
\* so does such a request for an id that was never created, and no session
\* is created; a request answered with 400 or 404 leaves the session map
\* unchanged.
C25_AbsentSessionAnswers404Or400 ==
    [][/\ LifecycleFrame
       /\ \A id \in issued \cup {UnknownId} :
             \A route \in {"session", "message", "delete"} :
                 (Absent(id) /\ Names(route, id)) =>
                     IF route = "message" /\ ~HasText(chatResp'.body, "message")
                     THEN chatResp'.resp.status = 400
                     ELSE chatResp'.resp.status = 404]_vars

\* a message post with a text for the one session there was, after its
\* DELETE, was answered 404
C25_Witness ==
    /\ chatResp.route = "message" /\ chatResp.resp.status = 404
    /\ HasText(chatResp.body, "message")
    /\ issued = {chatResp.body.sessionId}
    /\ chatSessions = <<>>

----------------------------------------------------------------------------

(* The list of the chat sessions *)

\* the list that GET /sessions has just answered with
Listed == chatResp.resp.body

\* C26: GET /chat/sessions lists exactly the sessions that were started and
\* not yet deleted, each of them once, and the messageCount of each listed
\* session is the number of POST /chat/message requests that succeeded for it
C26_ListsLiveSessionsWithCounts ==
    chatResp.route = "sessions" =>
        /\ chatResp.resp.status = 200
        /\ {Listed[i].id : i \in 1..Len(Listed)} = sessionLog.started \ sessionLog.ended
        /\ \A i, j \in 1..Len(Listed) : Listed[i].id = Listed[j].id => i = j
        /\ \A i \in 1..Len(Listed) : Listed[i].messageCount = sessionLog.posted[Listed[i].id]

\* a list answered after a session that held a message was kept and another
\* session was deleted
C26_Witness ==
    /\ chatResp.route = "sessions"
    /\ sessionLog.ended # {}
    /\ \E i \in 1..Len(Listed) : Listed[i].messageCount = 1

----------------------------------------------------------------------------

(* The RAG service and the chat sessions *)

\* the request r asked about a session the chat router holds
OfChatSession(r) == mapHas(chatSessions, sessionIdOf(r.body))

\* C27: ragService.chat returns the sessionId it was given unchanged (null
\* when none was given) and no step of the RAG service reads, creates or
\* modifies a chat session; GET /rag/session/:id answers with messageCount 0
\* for every id, whether or not the chat router holds a session with that id
\* and however many messages that session holds
C27_SessionIdPassedThroughSessionsUntouched ==
    [][ /\ chatSessions' = chatSessions
        /\ \A s \in Slots :
             LET r == reqs'[s] IN
             /\ Answered(r) /\ r.route = "chat" =>
                  r.resp.body.sessionId =
                      IF "sessionId" \in DOMAIN r.body THEN r.body.sessionId ELSE Null
             /\ r.pc = "done" /\ r.route = "session" =>
                  /\ r.resp.status = 200
                  /\ r.resp.body.id = r.body.sessionId
                  /\ r.resp.body.messageCount = 0 ]_vars

\* GET /rag/session/:id was answered for a session of the chat router that
\* holds a message
C27_Witness ==
    \E s \in Slots :
        /\ reqs[s].pc = "done" /\ reqs[s].route = "session"
        /\ OfChatSession(reqs[s])
        /\ mapGet(chatSessions, reqs[s].body.sessionId).messages # <<>>

----------------------------------------------------------------------------
(* The health of a service whose index fails *)

\* C28: healthCheck reports the status "unhealthy" whenever the index is
\* failing: when the count query fails, so that getStats reports the
\* vectorStoreStatus "error", the health answer is "unhealthy" and never
\* "healthy"
C28_UnhealthyWhenIndexFails ==
    \A s \in Slots :
        LET r == reqs[s] IN
        Counted(r, "health") /\ r.failure # NoError =>
            /\ r.resp.body.status = "unhealthy"
            /\ r.resp.body.status # "healthy"

----------------------------------------------------------------------------
(* Sending a chat message *)

\* the step appends one message of the type
Appends(type) ==
    /\ Len(messages') = Len(messages) + 1
    /\ SubSeq(messages', 1, Len(messages)) = messages
    /\ messages'[Len(messages')].type = type

\* C29: the chat UI accepts a send only when the input is not blank and no
\* request is in flight; an accepted send appends exactly one user message
\* and, when its request settles, exactly one assistant message (the response,
\* or the fixed error text when the request failed), so user and assistant
\* messages alternate; isLoading is false again after the request has
\* settled, with success or with failure.
C29_SendsAndAnswersAlternate ==
    /\ [](/\ \A i \in 1..Len(messages) :
               messages[i].type = IF i % 2 = 1 THEN "user" ELSE "assistant"
          /\ isLoading <=> Len(messages) % 2 = 1
          /\ Len(pending) = IF isLoading THEN 1 ELSE 0)
    /\ [][ /\ messages' # messages => Appends("user") \/ Appends("assistant")
           /\ Appends("user") =>
                /\ trim(inputMessage) # <<>> /\ ~isLoading
                /\ messages'[Len(messages')].content = inputMessage
                /\ isLoading' /\ pending' = <<inputMessage>>
           /\ Appends("assistant") =>
                /\ isLoading /\ ~isLoading' /\ pending' = <<>>
                /\ \/ messages'[Len(messages')] = errorMessage
                   \/ \E response \in ChatResults :
                        messages'[Len(messages')] = assistantMessage(response) ]_vars
    /\ (isLoading ~> ~isLoading)

\* a failed request and then an answered one, each behind its user message
C29_Witness ==
    /\ Len(messages) = 4
    /\ messages[2] = errorMessage
    /\ messages[4].content = <<"reply">> /\ messages[4].sources # <<>>
    /\ messages[3].content = <<"a", " ">>
    /\ ~isLoading

----------------------------------------------------------------------------
(* The timer of the upload form *)

\* the 5-second timer of the upload fires in this step
Fires(upload) == timers # <<>> /\ Head(timers) = upload /\ timers' = Tail(timers)

\* C30: the 5-second timer a successful upload started clears only the
\* success status of that upload: when it fires it never resets to idle an
\* error status, or the success status of a newer upload, that a later
\* submission has set
C30_TimerClearsOnlyItsOwnStatus ==
    [][ \A upload \in 1..MaxUploads :
            Fires(upload) /\ uploadStatus # "idle" /\ uploadStatus' = "idle" =>
                uploadStatus = "success" /\ statusOf = upload ]_vars

====
